---------------------------- MODULE Spec2Model ----------------------------
(***************************************************************************)
(* Model of src/src/main.rs: the colour-picker mode of the bulb driver.    *)
(*                                                                         *)
(* color_picker (lines 113-138) loops forever: it captures one frame of    *)
(* the display, swaps the first and third channel of the raw buffer,       *)
(* quantizes the image to one dominant colour, converts it to HSL,         *)
(* compares it with the colour of the previous iteration and sends a       *)
(* payload to the device when the two differ by more than the threshold.   *)
(*                                                                         *)
(* HSL components are f32 in the source.  They are modelled in fixed       *)
(* point: a component x is the integer x * Scale, so that 10.0 and a value *)
(* just above 10.0 are different numbers.  Byte buffers are sequences of   *)
(* naturals below 256, strings are sequences of one-character strings.     *)
(***************************************************************************)
EXTENDS Integers, Sequences, FiniteSets, TLC

VARIABLES
    device,          \* result of connect(): "Ok" or "Err"            (line 83)
    pc,              \* position of the process in color_picker
    last_color,      \* let mut last_color                            (line 114)
    capturer,        \* (w, h) of the capturer of this iteration      (line 172)
    retries,         \* consecutive WouldBlock results of this iteration
    frame_result,    \* outcome of the last capturer.frame()          (line 175)
    buffer,          \* the raw frame                                 (line 176)
    swapped_buffer,  \* result of swap_color_channels                 (line 187)
    img,             \* result of create_image_from_buffer            (line 199)
    dominant_color,  \* the colour sampled in this iteration          (line 118)
    payload,         \* the payload built in this iteration           (line 119)
    diff,            \* color_diff(&last_color, &dominant_color)      (line 122)
    attempts,        \* calls of device.set in this iteration         (line 128)
    send_result,     \* result of device.set in this iteration        (line 128)
    emitted,         \* history: the colour of the last payload the device took
    prev_sample      \* history: the colour sampled in the iteration before

vars == <<device, pc, last_color, capturer, retries, frame_result, buffer,
          swapped_buffer, img, dominant_color, payload, diff, attempts,
          send_result, emitted, prev_sample>>

---------------------------------------------------------------------------
(* Bounds of the model *)

\* resolution of the fixed-point model of f32: 1.0 is Scale units
Scale == 100
\* widest and tallest display
MaxW == 2
MaxH == 1
\* most pixels of padding that follow the width*height pixels of a frame
MaxPad == 1
\* most consecutive WouldBlock results in one iteration
MaxRetry == 2

---------------------------------------------------------------------------
(* Values *)

Hsl(h, s, l) == [h |-> h, s |-> s, l |-> l]

\* Hsl::from(0.0, 0.0, 0.0)
Black == Hsl(0, 0, 0)

\* no colour yet (history variables, and dominant_color between iterations)
NoColor == Hsl(-1, -1, -1)

\* The colours the quantizer may report.  One fractional hue, the pairs at
\* distance exactly 10.0 (Red/Hue10, Red/Hue350), just above it (Red/Hue10e),
\* across the hue wrap (Hue350/Hue10), and a slow drift Red, Hue10, Hue16,
\* Hue22 whose steps are each at most 10.0.
Red == Hsl(0, 100 * Scale, 50 * Scale)
NearRed == Hsl(5 * Scale, 95 * Scale, 48 * Scale)
Hue10 == Hsl(10 * Scale, 100 * Scale, 50 * Scale)
Hue10e == Hsl(10 * Scale + 1, 100 * Scale, 50 * Scale)
Hue16 == Hsl(16 * Scale, 100 * Scale, 51 * Scale)
Hue22 == Hsl(22 * Scale, 100 * Scale, 53 * Scale)
Hue350 == Hsl(350 * Scale, 100 * Scale, 50 * Scale)
Hue359 == Hsl(359 * Scale, 100 * Scale, 50 * Scale)
White == Hsl(0, 0, 100 * Scale)

SampleColours ==
    {Black, Red, NearRed, Hue10, Hue10e, Hue16, Hue22, Hue350, Hue359, White}

\* the pixels a raw frame is made of, in capture-native order (b, g, r, a)
RawPixels == {<<1, 2, 3, 255>>, <<40, 50, 60, 128>>}

NoCapturer == [w |-> 0, h |-> 0]
NoImage == [width |-> 0, height |-> 0, data |-> <<>>]
NoPayload == [dps21 |-> "", dps24 |-> <<>>]

Abs(x) == IF x < 0 THEN -x ELSE x

RECURSIVE Flatten(_)
Flatten(pixels) ==
    IF pixels = <<>> THEN <<>> ELSE Head(pixels) \o Flatten(Tail(pixels))

\* The buffers capturer.frame() may deliver for a w x h display: the w*h
\* pixels of the picture, followed by up to MaxPad pixels of padding.
Frames(w, h) ==
    { Flatten(px) : px \in UNION { [1..n -> RawPixels] : n \in (w * h)..(w * h + MaxPad) } }

---------------------------------------------------------------------------
(* fn color_diff, lines 302-313 *)

\* variant: the hue difference taken on the line, not on the circle
color_diff_linear_hue(color1, color2) ==
    Abs(color1.h - color2.h) + Abs(color1.s - color2.s) + Abs(color1.l - color2.l)

color_diff(color1, color2) ==
    LET hue_diff0 == Abs(color1.h - color2.h)
        hue_diff == IF hue_diff0 > 180 * Scale THEN 360 * Scale - hue_diff0 ELSE hue_diff0
        sat_diff == Abs(color1.s - color2.s)
        lum_diff == Abs(color1.l - color2.l)
    IN  hue_diff + sat_diff + lum_diff

\* let threshold = 10.0, line 120
threshold == 10 * Scale

\* the else branch of `if diff <= threshold`, lines 124-129
\* variant: a distance equal to the threshold sends too
ShouldSend_inclusive(d) == d >= threshold

ShouldSend(d) == ~(d <= threshold)

---------------------------------------------------------------------------
(* fn hsv2tuya, lines 144-151 *)

HexChars == <<"0", "1", "2", "3", "4", "5", "6", "7",
              "8", "9", "a", "b", "c", "d", "e", "f">>

\* `x as u32` of an f32: the fraction is dropped, a negative value is 0.
\* (Hue is below 360 and saturation at most 100, so neither the cast nor
\* the u32 products s * 10 and v * 10 come near 2^32.)
AsU32(x) == IF x < 0 THEN 0 ELSE x \div Scale

\* {:x}: the digits of n, no leading zero
RECURSIVE LowerHex(_)
LowerHex(n) ==
    IF n < 16 THEN <<HexChars[n + 1]>>
    ELSE LowerHex(n \div 16) \o <<HexChars[(n % 16) + 1]>>

RECURSIVE ZeroPad4(_)
ZeroPad4(s) == IF Len(s) >= 4 THEN s ELSE ZeroPad4(<<"0">> \o s)

\* variant: {:x}, no zero padding
Format04x_unpadded(n) == LowerHex(n)

\* format!("{:04x}", n): at least four digits, zero padded
Format04x(n) == ZeroPad4(LowerHex(n))

hsv2tuya(hsv) ==
    LET h == hsv[1]
        s == hsv[2]
        v == hsv[3]
        tuya_h == Format04x(h)
        tuya_s == Format04x(s * 10)
        tuya_v == Format04x(v * 10)
    IN  tuya_h \o tuya_s \o tuya_v

---------------------------------------------------------------------------
(* fn create_color_picker_payload, lines 254-281 *)

\* variant: a lightness of exactly 50.0 takes the first branch
lightness_inclusive(hsl) == IF hsl.l >= 50 * Scale THEN 50 ELSE 100

\* let lightness = if hsl.get_lightness() > 50.0 { 50 } else { 100 }
lightness(hsl) == IF hsl.l > 50 * Scale THEN 50 ELSE 100

create_color_picker_payload(hsl) ==
    [dps21 |-> "colour",
     dps24 |-> hsv2tuya(<<AsU32(hsl.h), AsU32(hsl.s), lightness(hsl)>>)]

---------------------------------------------------------------------------
(* fn swap_color_channels, lines 211-217 *)

\* for i in (0..buffer.len()).step_by(4): every four bytes of the buffer,
\* whatever width and height are
RECURSIVE SwapFrom(_, _)
SwapFrom(buf, i) ==
    IF i >= Len(buf) THEN <<>>
    ELSE <<buf[i + 3], buf[i + 2], buf[i + 1], buf[i + 4]>> \o SwapFrom(buf, i + 4)

swap_color_channels(buf, width, height) == SwapFrom(buf, 0)

(* fn create_image_from_buffer, lines 230-233: ImageBuffer::from_raw takes  *)
(* the container when it holds at least width*height*4 bytes and keeps all  *)
(* of it                                                                    *)
FromRawFits(buf, width, height) == Len(buf) >= width * height * 4

create_image_from_buffer(buf, width, height) ==
    [width |-> width, height |-> height, data |-> buf]

---------------------------------------------------------------------------
(* fn generate_screenshot_and_get_dominant_color, lines 153-209 *)

\* variant: every frame error panics
OnFrameError_abort(kind) == "panicked"

\* variant: every frame error is polled again
OnFrameError_retry(kind) == "frame"

\* the Err arm of `match capturer.frame()`, lines 177-184: WouldBlock sleeps
\* one frame and continues the loop, anything else panics
OnFrameError(kind) == IF kind = "WouldBlock" THEN "frame" ELSE "panicked"

---------------------------------------------------------------------------
(* fn color_picker, lines 113-138 *)

\* variant: device.set(payload, 0).unwrap()
AfterSend_unwrap(result) == IF result = "Err" THEN "panicked" ELSE "update"

\* let _ = device.set(payload, 0), line 128: the result is dropped
AfterSend(result) == "update"

\* variant: last_color follows the colours sent, not the colours sampled
NextLastColor_on_send(old, sample, sent) == IF sent THEN sample ELSE old

\* last_color = dominant_color, line 131
NextLastColor(old, sample, sent) == sample

Init ==
    /\ device \in {"Ok", "Err"}
    /\ pc = "start"
    /\ last_color = Black
    /\ capturer = NoCapturer
    /\ retries = 0
    /\ frame_result = "none"
    /\ buffer = <<>>
    /\ swapped_buffer = <<>>
    /\ img = NoImage
    /\ dominant_color = NoColor
    /\ payload = NoPayload
    /\ diff = 0
    /\ attempts = 0
    /\ send_result = "none"
    /\ emitted = NoColor
    /\ prev_sample = NoColor

loopVars == <<last_color, attempts, send_result, emitted, prev_sample>>
frameVars == <<capturer, retries, frame_result, buffer, swapped_buffer, img>>
sampleVars == <<dominant_color, payload, diff>>

\* if let Ok(device) = device { loop {, lines 116-117
EnterLoop ==
    /\ pc = "start"
    /\ device = "Ok"
    /\ pc' = "capture"
    /\ UNCHANGED <<device, loopVars, frameVars, sampleVars>>

\* else { println!("Failed to connect to the device.") }, lines 135-137
ConnectFailed ==
    /\ pc = "start"
    /\ device = "Err"
    /\ pc' = "returned"
    /\ UNCHANGED <<device, loopVars, frameVars, sampleVars>>

\* Display::all(), Capturer::new(second), capturer.width(), capturer.height(),
\* lines 157-172
CreateCapturer ==
    /\ pc = "capture"
    /\ \E w \in 1..MaxW, h \in 1..MaxH : capturer' = [w |-> w, h |-> h]
    /\ pc' = "frame"
    /\ UNCHANGED <<device, loopVars, retries, frame_result, buffer,
                   swapped_buffer, img, sampleVars>>

\* the three .expect of lines 157, 161 and 171
CapturerFailed ==
    /\ pc = "capture"
    /\ pc' = "panicked"
    /\ UNCHANGED <<device, loopVars, frameVars, sampleVars>>

\* capturer.frame() is Err(WouldBlock), lines 175-180
FrameWouldBlock ==
    /\ pc = "frame"
    /\ retries < MaxRetry
    /\ frame_result' = "WouldBlock"
    /\ retries' = retries + 1
    /\ pc' = OnFrameError("WouldBlock")
    /\ UNCHANGED <<device, loopVars, capturer, buffer, swapped_buffer, img,
                   sampleVars>>

\* capturer.frame() is another Err, lines 175-183
FrameError ==
    /\ pc = "frame"
    /\ frame_result' = "Other"
    /\ pc' = OnFrameError("Other")
    /\ UNCHANGED <<device, loopVars, capturer, retries, buffer, swapped_buffer,
                   img, sampleVars>>

\* capturer.frame() is Ok(buffer), lines 175-176
FrameOk ==
    /\ pc = "frame"
    /\ \E b \in Frames(capturer.w, capturer.h) : buffer' = b
    /\ frame_result' = "Ok"
    /\ pc' = "swap"
    /\ UNCHANGED <<device, loopVars, capturer, retries, swapped_buffer, img,
                   sampleVars>>

\* let swapped_buffer = swap_color_channels(&buffer, w, h), line 187
SwapChannels ==
    /\ pc = "swap"
    /\ swapped_buffer' = swap_color_channels(buffer, capturer.w, capturer.h)
    /\ pc' = "image"
    /\ UNCHANGED <<device, loopVars, capturer, retries, frame_result, buffer,
                   img, sampleVars>>

\* let img = create_image_from_buffer(&swapped_buffer, w, h), line 199
CreateImage ==
    /\ pc = "image"
    /\ IF FromRawFits(swapped_buffer, capturer.w, capturer.h)
       THEN /\ img' = create_image_from_buffer(swapped_buffer, capturer.w, capturer.h)
            /\ pc' = "quantize"
       ELSE /\ img' = img
            /\ pc' = "panicked"
    /\ UNCHANGED <<device, loopVars, capturer, retries, frame_result, buffer,
                   swapped_buffer, sampleVars>>

\* get_dominant_color(&img).to_hsl(), lines 203-207 and 235-252: the palette
\* of img.into_vec(), all of the container, and its first entry as HSL.
\* The frame, the swapped buffer and the image are dropped on return.
Quantize ==
    /\ pc = "quantize"
    /\ \E c \in SampleColours : dominant_color' = c
    /\ buffer' = <<>>
    /\ swapped_buffer' = <<>>
    /\ img' = NoImage
    /\ capturer' = NoCapturer
    /\ pc' = "compare"
    /\ UNCHANGED <<device, loopVars, retries, frame_result, payload, diff>>

\* get_palette(..).unwrap() and palette.first().unwrap(), lines 242-243
QuantizeFailed ==
    /\ pc = "quantize"
    /\ pc' = "panicked"
    /\ UNCHANGED <<device, loopVars, frameVars, sampleVars>>

\* lines 119-122: the payload is built and the distance computed
Compare ==
    /\ pc = "compare"
    /\ payload' = create_color_picker_payload(dominant_color)
    /\ diff' = color_diff(last_color, dominant_color)
    /\ pc' = "decide"
    /\ UNCHANGED <<device, loopVars, frameVars, dominant_color>>

\* if diff <= threshold { info!(..) }, lines 124-125
Skip ==
    /\ pc = "decide"
    /\ ~ShouldSend(diff)
    /\ pc' = "update"
    /\ UNCHANGED <<device, loopVars, frameVars, sampleVars>>

\* else { let _ = device.set(payload, 0) }, lines 126-129
Send ==
    /\ pc = "decide"
    /\ ShouldSend(diff)
    /\ \E r \in {"Ok", "Err"} :
          /\ send_result' = r
          /\ emitted' = IF r = "Ok" THEN dominant_color ELSE emitted
          /\ pc' = AfterSend(r)
    /\ attempts' = attempts + 1
    /\ UNCHANGED <<device, last_color, prev_sample, frameVars, sampleVars>>

\* last_color = dominant_color, line 131
UpdateLastColor ==
    /\ pc = "update"
    /\ last_color' = NextLastColor(last_color, dominant_color, attempts > 0)
    /\ prev_sample' = dominant_color
    /\ pc' = "sleep"
    /\ UNCHANGED <<device, attempts, send_result, emitted, frameVars, sampleVars>>

\* thread::sleep(Duration::from_secs(1)) and the next turn of the loop,
\* lines 133-134: the locals of the iteration are gone
Sleep ==
    /\ pc = "sleep"
    /\ pc' = "capture"
    /\ dominant_color' = NoColor
    /\ payload' = NoPayload
    /\ diff' = 0
    /\ attempts' = 0
    /\ send_result' = "none"
    /\ retries' = 0
    /\ frame_result' = "none"
    /\ UNCHANGED <<device, last_color, emitted, prev_sample, capturer, buffer,
                   swapped_buffer, img>>

Next ==
    \/ EnterLoop
    \/ ConnectFailed
    \/ CreateCapturer
    \/ CapturerFailed
    \/ FrameWouldBlock
    \/ FrameError
    \/ FrameOk
    \/ SwapChannels
    \/ CreateImage
    \/ Quantize
    \/ QuantizeFailed
    \/ Compare
    \/ Skip
    \/ Send
    \/ UpdateLastColor
    \/ Sleep

Spec == Init /\ [][Next]_vars

---------------------------------------------------------------------------
(* Properties *)

LowerHexDigits ==
    {"0", "1", "2", "3", "4", "5", "6", "7", "8", "9", "a", "b", "c", "d", "e", "f"}

HexDigitValue(c) == CHOOSE d \in 0..15 : HexChars[d + 1] = c

RECURSIVE HexValue(_)
HexValue(s) ==
    IF s = <<>> THEN 0
    ELSE 16 * HexValue(SubSeq(s, 1, Len(s) - 1)) + HexDigitValue(s[Len(s)])

Min(a, b) == IF a < b THEN a ELSE b

\* the colour the sample of this iteration is to be compared with: the
\* sample of the iteration before, black in the first iteration
PreviousSample == IF prev_sample = NoColor THEN Black ELSE prev_sample

\* C1: in every iteration a send is attempted if and only if the distance
\* between last_color and the new sample is strictly greater than 10.0; a
\* distance of exactly 10.0 causes no send, and nothing is sent outside the
\* decision of an iteration.
C1_SendIffAboveThreshold ==
    /\ attempts \in {0, 1}
    /\ pc \in {"decide", "update"} => diff = color_diff(last_color, dominant_color)
    /\ pc \in {"update", "sleep"} => (attempts = 1 <=> diff > threshold)
    /\ pc \notin {"update", "sleep"} => attempts = 0

\* an iteration whose distance is exactly 10.0 has decided, and sent nothing
C1_Witness ==
    /\ pc = "update"
    /\ diff = threshold
    /\ attempts = 0
    /\ last_color # dominant_color

\* C2: last_color is black when the loop starts and until an iteration has
\* completed; at the end of every completed iteration it is the colour
\* sampled in that iteration, sent or not, and from then on it is the most
\* recent sample.
C2_LastColorIsLatestSample ==
    /\ pc = "start" => last_color = Black
    /\ prev_sample = NoColor => last_color = Black
    /\ pc = "sleep" => last_color = dominant_color
    /\ prev_sample # NoColor => last_color = prev_sample

\* an iteration completed without a send: last_color is its sample, which
\* is not the colour the device took last
C2_Witness ==
    /\ pc = "sleep"
    /\ attempts = 0
    /\ last_color = dominant_color
    /\ emitted # NoColor
    /\ emitted # last_color

\* C3: a failed send is ignored.  The step that fails goes on to the update
\* of last_color with exactly one attempt made; the update then stores the
\* new sample without another attempt, and the loop goes on to capture again.
C3_SendFailureIgnored ==
    [][ /\ (send_result # "Err" /\ send_result' = "Err") =>
              /\ pc' = "update"
              /\ attempts' = 1
              /\ last_color' = last_color
        /\ (send_result = "Err" /\ pc = "update") =>
              /\ pc' = "sleep"
              /\ attempts' = 1
              /\ last_color' = dominant_color
        /\ (send_result = "Err" /\ pc = "sleep") => pc' = "capture"
      ]_vars

\* an iteration whose send failed has completed with last_color updated
C3_Witness ==
    /\ pc = "sleep"
    /\ send_result = "Err"
    /\ attempts = 1
    /\ last_color = dominant_color
    /\ emitted # dominant_color

\* C4: a WouldBlock result keeps the process polling for the frame of the
\* same iteration: no send, last_color and the record of the device
\* unchanged.  A delivered frame leaves the polling loop at once, and the
\* pipeline never goes back to polling: it ends with the sample of the
\* iteration (or in one of the panics of the pipeline).
C4_WouldBlockRetries ==
    [][ /\ (pc = "frame" /\ frame_result' = "WouldBlock") =>
              /\ pc' = "frame"
              /\ attempts' = 0
              /\ dominant_color' = NoColor
              /\ UNCHANGED <<last_color, emitted, prev_sample, send_result, capturer>>
        /\ (pc = "frame" /\ frame_result' = "Ok") =>
              /\ pc' = "swap"
              /\ buffer' # <<>>
              /\ UNCHANGED <<last_color, attempts>>
        /\ pc = "swap" => pc' = "image"
        /\ pc = "image" => pc' \in {"quantize", "panicked"}
        /\ pc = "quantize" => pc' \in {"compare", "panicked"}
        /\ (pc = "quantize" /\ pc' = "compare") => dominant_color' \in SampleColours
      ]_vars

\* an iteration that met MaxRetry WouldBlock results and then a frame has
\* completed with a sample
C4_Witness ==
    /\ pc = "sleep"
    /\ retries = MaxRetry
    /\ frame_result = "Ok"
    /\ last_color = dominant_color
    /\ dominant_color # NoColor

\* C5: a frame error other than WouldBlock panics in that iteration, and
\* after the panic nothing is sent and last_color does not change.
C5_OtherFrameErrorFatal ==
    /\ [](frame_result = "Other" => pc = "panicked")
    /\ [][ /\ (pc = "frame" /\ frame_result' = "Other") =>
                 /\ pc' = "panicked"
                 /\ UNCHANGED <<last_color, attempts, emitted>>
           /\ pc = "panicked" =>
                 /\ pc' = "panicked"
                 /\ UNCHANGED <<last_color, attempts, emitted, send_result>>
         ]_vars

\* the process panicked on a frame error after earlier iterations and after
\* WouldBlock results in this one
C5_Witness ==
    /\ pc = "panicked"
    /\ frame_result = "Other"
    /\ retries > 0
    /\ prev_sample # NoColor
    /\ attempts = 0

\* C6: for every frame of at least w*h*4 bytes the normalizer yields exactly
\* w*h*4 bytes, pixel (ch0,ch1,ch2,ch3) becoming (ch2,ch1,ch0,ch3), and the
\* image handed to the quantizer holds no byte beyond w*h*4.
C6_NormalizerExactlyWH ==
    LET n == capturer.w * capturer.h IN
    /\ pc = "image" =>
          /\ Len(swapped_buffer) = n * 4
          /\ \A p \in 0..(n - 1) :
                /\ swapped_buffer[4 * p + 1] = buffer[4 * p + 3]
                /\ swapped_buffer[4 * p + 2] = buffer[4 * p + 2]
                /\ swapped_buffer[4 * p + 3] = buffer[4 * p + 1]
                /\ swapped_buffer[4 * p + 4] = buffer[4 * p + 4]
    /\ pc = "quantize" => Len(img.data) = n * 4

C8_DeviceColorCode ==
    /\ hsv2tuya(<<0, 0, 0>>) =
          <<"0", "0", "0", "0", "0", "0", "0", "0", "0", "0", "0", "0">>
    /\ hsv2tuya(<<359, 100, 100>>) =
          <<"0", "1", "6", "7", "0", "3", "e", "8", "0", "3", "e", "8">>
    /\ payload # NoPayload =>
          LET code == payload.dps24
              hue == HexValue(SubSeq(code, 1, 4))
              sat == HexValue(SubSeq(code, 5, 8))
              val == HexValue(SubSeq(code, 9, 12))
          IN  /\ Len(code) = 12
              /\ \A i \in 1..Len(code) : code[i] \in LowerHexDigits
              /\ hue = dominant_color.h \div Scale
              /\ sat = 10 * (dominant_color.s \div Scale)
              /\ val \in {500, 1000}
              /\ hue < 65536 /\ sat < 65536 /\ val < 65536

\* the payload of the sample (359, 100, 50)
C8_Witness ==
    /\ dominant_color = Hue359
    /\ payload.dps24 = <<"0", "1", "6", "7", "0", "3", "e", "8", "0", "3", "e", "8">>

\* C9: the distance computed in an iteration is
\* min(|h1-h2|, 360-|h1-h2|) + |s1-s2| + |l1-l2|; it is not negative, the
\* same in both directions, and 0 for equal colours, which send nothing.
C9_ColorDiff ==
    pc \in {"decide", "update"} =>
        LET a == last_color
            b == dominant_color
            dh == Abs(a.h - b.h)
        IN  /\ diff = Min(dh, 360 * Scale - dh) + Abs(a.s - b.s) + Abs(a.l - b.l)
            /\ diff >= 0
            /\ color_diff(b, a) = diff
            /\ a = b => diff = 0
            /\ (a = b /\ pc = "update") => attempts = 0

\* hue 350 against hue 10 counts 20
C9_Witness ==
    /\ pc = "update"
    /\ last_color = Hue350
    /\ dominant_color = Hue10
    /\ diff = 20 * Scale

\* C10: the decision of an iteration rests on the sample of the iteration
\* before alone: a sample within 10.0 of its predecessor is not sent, however
\* far it is from the colour the device took last, and a sample is sent
\* exactly when it is more than 10.0 from its predecessor.
C10_ComparesWithPreviousSample ==
    pc = "update" =>
        (attempts = 1 <=> color_diff(PreviousSample, dominant_color) > threshold)

\* a drift: nothing is sent for a sample that is more than twice the
\* threshold from the colour the device took last
C10_Witness ==
    /\ pc = "update"
    /\ attempts = 0
    /\ emitted # NoColor
    /\ color_diff(emitted, dominant_color) > 2 * threshold

====
